---- MODULE Spec2Model ----
(***************************************************************************)
(* Threat fetcher (src/fetcher/fetcher.py): scheduler loop, fetch of the   *)
(* OTX feed under a bounded retry, extraction of indicator documents and   *)
(* the upsert of each of them into the MongoDB collection "threats"; and   *)
(* the page of the UI (src/app/views.py, src/app/ui_app.py) that reads     *)
(* the collection.                                                         *)
(*                                                                         *)
(* JSON objects are records whose DOMAIN is the set of keys present, so a  *)
(* missing key is a key outside the DOMAIN (dict.get then gives the        *)
(* default).  Time is counted in ticks; an ISO-8601 string is the tuple    *)
(* of its instant followed by the suffix appended to it.                   *)
(***************************************************************************)
EXTENDS Integers, Sequences, FiniteSets, Bags, TLC

VARIABLES
    store,            \* collection db["threats"]: a bag of documents
    now,              \* wall clock, in ticks
    feed,             \* which response bodies the upstream serves
    pc,               \* per process: position in the program
    mode,             \* per process: "fetch_now" or "forever" (args.fetch_now)
    status,           \* per process: "running", "exit_ok", "exit_error"
    next_run,         \* per process: schedule's job.next_run
    running,          \* per process: invocations of fetch_threats in flight
    started,          \* per process: clock at the start of the cycle in flight
    tries,            \* per process: backoff's attempt counter of the call
    indicators,       \* per process: the list fetch_otx_threats returned
    idx,              \* per process: position of the for loop in indicators
    matched,          \* per process: did the filter of the upsert match
    calls,            \* per process: update_one calls made for the current item
    result,           \* per process: what the last update_one reported
    new_count,        \* per process: fetch_threats' new_count
    duplicate_count,  \* per process: fetch_threats' duplicate_count
    inserted,         \* per process: documents inserted by the cycle in flight
    failure,          \* per process: exception that ended the last failed cycle
    completed,        \* per process: cycles that have returned
    malformed,        \* per process: the last attempt of the call in flight
                      \* received a body that is not an object with "results"
    size_before,      \* per process: size of the collection when the cycle began
    missing,          \* per process: what the module-level set-up found missing
    ui                \* the UI's last request and what it rendered

vars == <<store, now, feed, pc, mode, status, next_run, running, started, tries,
          indicators, idx, matched, calls, result, new_count, duplicate_count,
          inserted, failure, completed, malformed, size_before, missing, ui>>

(***************************************************************************)
(* Bounds of the model.                                                    *)
(***************************************************************************)
MaxClock == 2
MaxRecs == 2
MaxStored == 22

\* --loop-delay, in ticks
Interval == 1

Procs == {1, 2}

\* max_tries of the backoff decorator
MaxTries == 5

\* Python's None
None == "<None>"

(***************************************************************************)
(* Upstream payloads.                                                      *)
(***************************************************************************)
\* raw indicator records: each of "indicator" and "type" is missing, empty or set
RawRecords ==
    {[content |-> ""]}
    \cup {[content |-> "", indicator |-> i] : i \in {"", "1.2.3.4"}}
    \cup {[content |-> "", type |-> t] : t \in {"", "IPv4"}}
    \cup {[content |-> "", indicator |-> i, type |-> t] :
            i \in {"", "1.2.3.4"}, t \in {"", "IPv4"}}

\* two records with both fields set, and one record with neither
FeedRecords ==
    {[content |-> ""],
     [content |-> "", indicator |-> "1.2.3.4", type |-> "IPv4"],
     [content |-> "", indicator |-> "evil.com", type |-> "domain"]}

ModifiedVals == {<<0, "Z">>}

\* the pulses that hold exactly k records, with and without "modified"
PulsesOfLen(recs, k) ==
    {[name |-> "p", indicators |-> s] : s \in [1..k -> recs]}
    \cup {[name |-> "p", indicators |-> s, modified |-> m] :
            s \in [1..k -> recs], m \in ModifiedVals}

\* the lists of pulses that hold at most n records together
RECURSIVE PulseSeqs(_, _)
PulseSeqs(recs, n) ==
    {<<>>} \cup
    UNION {{<<q>> \o rest : q \in PulsesOfLen(recs, k), rest \in PulseSeqs(recs, n - k)} :
             k \in 1..n}

\* response bodies: not JSON, JSON that is no object, an object without
\* "results", a pulse without "indicators", an object with "results"
Bodies(recs) ==
    {[kind |-> "notjson"], [kind |-> "array"]}
    \cup {[kind |-> "object", json |-> [count |-> 0]]}
    \cup {[kind |-> "object", json |-> [count |-> 0, results |-> <<[name |-> "p"]>>]]}
    \cup {[kind |-> "object", json |-> [count |-> 0, results |-> r]] :
            r \in PulseSeqs(recs, MaxRecs)}

\* a body with one pulse that holds one well-formed record
OneRecordBody ==
    [kind |-> "object",
     json |-> [count |-> 0,
               results |-> <<[name |-> "p", modified |-> <<0, "Z">>,
                              indicators |-> <<[content |-> "", indicator |-> "1.2.3.4",
                                                type |-> "IPv4"]>>]>>]]

\* the bodies the upstream serves: any body over the well-formed records
\* ("main"), the same body at every request ("fixed"), or one well-formed
\* record and the malformed bodies ("small")
Served(fd) ==
    CASE fd.kind = "main" -> Bodies(FeedRecords)
      [] fd.kind = "fixed" -> {fd.body}
      [] fd.kind = "small" -> {[kind |-> "notjson"], [kind |-> "array"], OneRecordBody}

NoBody == [kind |-> "none"]
MainFeed == {[kind |-> "main", body |-> NoBody]}
FixedFeeds(recs) == {[kind |-> "fixed", body |-> b] : b \in Bodies(recs)}
SmallFeed == {[kind |-> "small", body |-> NoBody]}

(***************************************************************************)
(* fetch_otx_threats: extraction of the indicator documents.               *)
(***************************************************************************)
\* dict.get(key, default)
Get(obj, key, default) == IF key \in DOMAIN obj THEN obj[key] ELSE default

\* truth value of a string or None
Truthy(v) == v # None /\ v # ""

\* datetime.utcnow().isoformat() + "Z"
UtcNowZ(t) == <<t>> \o <<"Z">>

\* the test written as "is not None": an empty string passes
KeepNotNone(ind) == Get(ind, "indicator", None) # None /\ Get(ind, "type", None) # None

\* the test of line 199
Keep(ind) == Truthy(Get(ind, "indicator", None)) /\ Truthy(Get(ind, "type", None))

\* the body of the inner loop: zero or one document for one raw record
Normalize(ind, pulse, t) ==
    IF Keep(ind)
    THEN <<[indicator |-> ind.indicator,
            type |-> ind.type,
            timestamp |-> Get(pulse, "modified", UtcNowZ(t))]>>
    ELSE <<>>

RECURSIVE ExtractInds(_, _, _)
ExtractInds(inds, pulse, t) ==
    IF inds = <<>> THEN <<>>
    ELSE Normalize(Head(inds), pulse, t) \o ExtractInds(Tail(inds), pulse, t)

RECURSIVE ExtractPulses(_, _)
ExtractPulses(pulses, t) ==
    IF pulses = <<>> THEN <<>>
    ELSE ExtractInds(Get(Head(pulses), "indicators", <<>>), Head(pulses), t)
         \o ExtractPulses(Tail(pulses), t)

\* lines 194-204
Extract(json, t) == ExtractPulses(Get(json, "results", <<>>), t)

(***************************************************************************)
(* collection.update_one(filter, {"$setOnInsert": item}, upsert=True)      *)
(***************************************************************************)
\* the filter with the type compared to the wrong field
FilterTypo(item) ==
    [indicator |-> item.indicator, type |-> item.indicator, timestamp |-> item.timestamp]

\* a filter on indicator and type alone
FilterNoTimestamp(item) == [indicator |-> item.indicator, type |-> item.type]

\* the filter of line 221
Filter(item) ==
    [indicator |-> item.indicator, type |-> item.type, timestamp |-> item.timestamp]

DocMatches(d, f) == \A k \in DOMAIN f : k \in DOMAIN d /\ d[k] = f[k]

\* does some stored document match the filter
Matched(st, f) == \E d \in BagToSet(st) : DocMatches(d, f)

\* the document an upsert inserts: the filter's equalities, then $setOnInsert
UpsertDoc(f, soi) ==
    [k \in DOMAIN f \cup DOMAIN soi |-> IF k \in DOMAIN soi THEN soi[k] ELSE f[k]]

\* the write phase of replace_one(filter, item, upsert=True): a matching
\* document is replaced by the item
WrittenReplace(st, m, f, soi) ==
    LET hit == CHOOSE d \in BagToSet(st) : DocMatches(d, f)
    IN  IF m THEN (st (-) SetToBag({hit})) (+) SetToBag({soi})
        ELSE st (+) SetToBag({UpsertDoc(f, soi)})

\* the write phase of a plain insert_one
WrittenInsertOne(st, m, f, soi) == st (+) SetToBag({UpsertDoc(f, soi)})

\* the collection after the write phase of the upsert
Written(st, m, f, soi) == IF m THEN st ELSE st (+) SetToBag({UpsertDoc(f, soi)})

\* a test that takes every acknowledged update_one for an insertion
UpsertedAlways(m) == TRUE

\* result.upserted_id is set
Upserted(m) == ~m

\* the collection after a handler that removes what the cycle inserted
AfterAbortRollback(st, ins) == st (-) SetToBag(ins)

\* the collection after an exception left fetch_threats: nothing is undone
AfterAbort(st, ins) == st

\* giving up one attempt late
GiveUpLate(n) == n = MaxTries + 1

\* backoff gives up when the attempt counter reaches max_tries
GiveUp(n) == n = MaxTries

\* a timer that fires the job whenever it is due, a cycle in flight or not
ShouldRunTimer(p) ==
    pc[p] \notin {"absent", "boot", "main", "exited"} /\ now >= next_run[p]

\* schedule runs the job from the loop only: run_pending is called between sleeps
ShouldRun(p) == pc[p] = "scheduler" /\ now >= next_run[p]

\* what the process is started in: MONGODB_URI set, the server answering
\* server_info(), OTX_API_KEY set, VT_API_KEY set
Environments == [uri : BOOLEAN, up : BOOLEAN, otx : BOOLEAN, vt : BOOLEAN]

\* lines 99-116: the first thing whose absence ends the set-up in sys.exit(1)
FirstMissing(env) ==
    IF ~env.uri THEN "MONGODB_URI"
    ELSE IF ~env.up THEN "server"
    ELSE IF ~env.otx THEN "OTX_API_KEY"
    ELSE IF ~env.vt THEN "VT_API_KEY"
    ELSE "none"

\* data has the key "results"
HasResults(data) == "results" \in DOMAIN data

\* the UI before its first request
NoRequest ==
    [served |-> FALSE, ok |-> TRUE, type |-> None, severity |-> None, threats |-> <<>>]

\* documents written to the collection before the processes of the model
\* start, the i-th of them: IPv4 indicators and one domain, with the
\* severity "high", "unknown" or none; the first two of the same instant
StoredDoc(i) ==
    LET base == [indicator |-> IF i # 2 THEN "1.2.3.4" ELSE "evil.com",
                 type |-> IF i # 2 THEN "IPv4" ELSE "domain",
                 timestamp |-> <<IF i <= 2 THEN 0 ELSE i - 2, "Z">>]
    IN  IF i % 3 = 0 THEN base
        ELSE [k \in DOMAIN base \cup {"severity"} |->
                IF k = "severity" THEN (IF i % 3 = 1 THEN "high" ELSE "unknown")
                ELSE base[k]]

\* the collections of the first n of these documents: none, the two of one
\* instant, one page of the UI, and more than a page
StoredBefore ==
    {SetToBag({StoredDoc(i) : i \in 1..n}) : n \in {0, 2, MaxStored - 1, MaxStored}}

(***************************************************************************)
(* Initial states.                                                         *)
(***************************************************************************)
InitStored(active, modes, feeds, stores) ==
    /\ store \in stores
    /\ now = 0
    /\ feed \in feeds
    /\ pc = [p \in Procs |-> IF p \in active THEN "boot" ELSE "absent"]
    /\ mode \in [Procs -> modes]
    /\ \A p \in Procs \ active : mode[p] = "fetch_now"
    /\ status = [p \in Procs |-> "running"]
    /\ next_run = [p \in Procs |-> 0]
    /\ running = [p \in Procs |-> 0]
    /\ started = [p \in Procs |-> 0]
    /\ tries = [p \in Procs |-> 0]
    /\ indicators = [p \in Procs |-> <<>>]
    /\ idx = [p \in Procs |-> 1]
    /\ matched = [p \in Procs |-> FALSE]
    /\ calls = [p \in Procs |-> 0]
    /\ result = [p \in Procs |-> "none"]
    /\ new_count = [p \in Procs |-> 0]
    /\ duplicate_count = [p \in Procs |-> 0]
    /\ inserted = [p \in Procs |-> {}]
    /\ failure = [p \in Procs |-> "none"]
    /\ completed = [p \in Procs |-> 0]
    /\ malformed = [p \in Procs |-> FALSE]
    /\ size_before = [p \in Procs |-> 0]
    /\ missing = [p \in Procs |-> "none"]
    /\ ui = NoRequest

\* the processes start on an empty collection
InitProc(active, modes, feeds) == InitStored(active, modes, feeds, {EmptyBag})

\* one fetcher process
Init == InitProc({1}, {"fetch_now", "forever"}, MainFeed)

\* one fetcher process, the upstream serving the same body at every request
InitFixed == InitProc({1}, {"fetch_now", "forever"}, FixedFeeds(FeedRecords))

\* one fetcher process run with --fetch-now on one body of raw records
InitOnce == InitProc({1}, {"fetch_now"}, FixedFeeds(RawRecords))

\* two fetcher processes on the same collection
InitTwo == InitProc(Procs, {"fetch_now", "forever"}, SmallFeed)

\* the UI and one fetcher process run with --fetch-now, on a collection that
\* holds documents already
InitUi == InitStored({1}, {"fetch_now"}, SmallFeed, StoredBefore)

(***************************************************************************)
(* The UI: index() of src/app/views.py and src/app/ui_app.py.              *)
(***************************************************************************)
\* limit(20)
PageSize == 20

\* request.args.get: None without the parameter, else its text
TypeArgs == {None, "", "IPv4"}
SeverityArgs == {None, "", "high"}

\* the query document: one equality per argument that is truthy
Query(threat_type, severity) ==
    LET args == [type |-> threat_type, severity |-> severity]
    IN  [k \in {a \in DOMAIN args : Truthy(args[a])} |-> args[k]]

\* collection.find(query): the stored documents the query matches
Find(st, q) ==
    [d \in {e \in BagToSet(st) : DocMatches(e, q)} |-> CopiesIn(d, st)]

\* the instant of a stored timestamp.  MongoDB compares the strings, and ISO
\* strings of one format compare as their instants do
Instant(d) == d.timestamp[1]

\* the documents no other document of the bag sorts before
Latest(B) == {d \in BagToSet(B) : \A e \in BagToSet(B) : Instant(e) <= Instant(d)}

\* the documents that sort last
Earliest(B) == {d \in BagToSet(B) : \A e \in BagToSet(B) : Instant(d) <= Instant(e)}

\* sort("timestamp", 1): the orders a sort on ascending timestamp can give
RECURSIVE SortedAsc(_)
SortedAsc(B) ==
    IF BagToSet(B) = {} THEN {<<>>}
    ELSE UNION {{<<d>> \o s : s \in SortedAsc(B (-) SetToBag({d}))} : d \in Earliest(B)}

\* sort("timestamp", -1): the orders a sort on descending timestamp can give,
\* documents of one timestamp coming in any order
RECURSIVE SortedDesc(_)
SortedDesc(B) ==
    IF BagToSet(B) = {} THEN {<<>>}
    ELSE UNION {{<<d>> \o s : s \in SortedDesc(B (-) SetToBag({d}))} : d \in Latest(B)}

\* limit(n)
Limit(s, n) == SubSeq(s, 1, IF Len(s) < n THEN Len(s) ELSE n)

\* datetime.fromisoformat(ts.replace("Z", "+00:00")) if ts else None
ParseTs(doc) ==
    IF "timestamp" \in DOMAIN doc THEN <<doc.timestamp[1], "+00:00">> ELSE None

\* the entry rendered for one document, lines 44-56
Threat(doc) ==
    [timestamp |-> ParseTs(doc),
     indicator |-> Get(doc, "indicator", "N/A"),
     type |-> Get(doc, "type", "N/A"),
     severity |-> Get(doc, "severity", "N/A")]

Render(s) == [i \in 1..Len(s) |-> Threat(s[i])]

\* GET /: the query runs and the page is rendered, or the query raises and
\* the page is rendered with no threats (lines 61-64).  index() keeps nothing
\* between requests, so one request is followed, made at any moment
UiQuery ==
    /\ ~ui.served
    /\ \E threat_type \in TypeArgs, severity \in SeverityArgs :
          \/ \E s \in SortedDesc(Find(store, Query(threat_type, severity))) :
                ui' = [served |-> TRUE, ok |-> TRUE, type |-> threat_type,
                       severity |-> severity,
                       threats |-> Render(Limit(s, PageSize))]
          \/ ui' = [served |-> TRUE, ok |-> FALSE, type |-> threat_type,
                    severity |-> severity, threats |-> <<>>]
    /\ UNCHANGED <<store, now, feed, pc, mode, status, next_run, running, started,
                   tries, indicators, idx, matched, calls, result, new_count,
                   duplicate_count, inserted, failure, completed, malformed,
                   size_before, missing>>

(***************************************************************************)
(* Actions of the fetcher.                                                 *)
(***************************************************************************)
cycleVars == <<tries, indicators, idx, matched, calls, result, new_count,
               duplicate_count, inserted, malformed, size_before>>

\* the process ends: status and everything in flight with it
Exit(p, st) ==
    /\ pc' = [pc EXCEPT ![p] = "exited"]
    /\ status' = [status EXCEPT ![p] = st]
    /\ running' = [running EXCEPT ![p] = 0]

\* an exception leaves fetch_threats: nothing catches it, neither in
\* schedule.run_pending nor in the while loop, so the interpreter exits
Raise(p, exc) ==
    /\ failure' = [failure EXCEPT ![p] = exc]
    /\ store' = AfterAbort(store, inserted[p])
    /\ Exit(p, "exit_error")

\* module-level set-up, lines 99-116
Startup(p) ==
    /\ pc[p] = "boot"
    /\ \E env \in Environments :
          /\ missing' = [missing EXCEPT ![p] = FirstMissing(env)]
          /\ IF FirstMissing(env) = "none"
             THEN /\ pc' = [pc EXCEPT ![p] = "main"]
                  /\ UNCHANGED <<store, status, running, failure>>
             ELSE Raise(p, "startup")
    /\ UNCHANGED <<now, feed, mode, next_run, started, cycleVars, completed, ui>>

\* entry of fetch_threats, lines 213-217
EnterCycle(p) ==
    /\ running' = [running EXCEPT ![p] = @ + 1]
    /\ started' = [started EXCEPT ![p] = now]
    /\ tries' = [tries EXCEPT ![p] = 0]
    /\ indicators' = [indicators EXCEPT ![p] = <<>>]
    /\ idx' = [idx EXCEPT ![p] = 1]
    /\ matched' = [matched EXCEPT ![p] = FALSE]
    /\ calls' = [calls EXCEPT ![p] = 0]
    /\ result' = [result EXCEPT ![p] = "none"]
    /\ new_count' = [new_count EXCEPT ![p] = 0]
    /\ duplicate_count' = [duplicate_count EXCEPT ![p] = 0]
    /\ inserted' = [inserted EXCEPT ![p] = {}]
    /\ malformed' = [malformed EXCEPT ![p] = FALSE]
    /\ size_before' = [size_before EXCEPT ![p] = BagCardinality(store)]
    /\ failure' = [failure EXCEPT ![p] = "none"]
    /\ pc' = [pc EXCEPT ![p] = "fetch"]

\* lines 248-252
Main(p) ==
    /\ pc[p] = "main"
    /\ IF mode[p] = "fetch_now"
       THEN /\ EnterCycle(p)
            /\ UNCHANGED next_run
       ELSE /\ pc' = [pc EXCEPT ![p] = "scheduler"]
            /\ next_run' = [next_run EXCEPT ![p] = now + Interval]
            /\ UNCHANGED <<running, started, cycleVars, failure>>
    /\ UNCHANGED <<store, now, feed, mode, status, completed, missing, ui>>

\* lines 254-256: schedule.run_pending() finds the job due and calls it
RunPending(p) ==
    /\ ShouldRun(p)
    /\ running[p] < 2
    /\ EnterCycle(p)
    /\ UNCHANGED <<store, now, feed, mode, status, next_run, completed, missing, ui>>

\* time passes
Tick ==
    /\ now < MaxClock
    /\ now' = now + 1
    /\ UNCHANGED <<store, feed, pc, mode, status, next_run, running, started,
                   cycleVars, failure, completed, missing, ui>>

\* one attempt of fetch_otx_threats under backoff.on_exception fails with a
\* requests.RequestException: connection error, timeout, or raise_for_status
FetchTransient(p) ==
    /\ pc[p] = "fetch"
    /\ tries' = [tries EXCEPT ![p] = @ + 1]
    /\ malformed' = [malformed EXCEPT ![p] = FALSE]
    /\ IF GiveUp(tries[p] + 1)
       THEN Raise(p, "RequestException")
       ELSE UNCHANGED <<store, pc, status, running, failure>>
    /\ UNCHANGED <<now, feed, mode, next_run, started, indicators, idx, matched,
                   calls, result, new_count, duplicate_count, inserted, completed,
                   size_before, missing, ui>>

\* res.json() fails on a body that is not JSON.  The exception is
\* requests.exceptions.JSONDecodeError, a RequestException, in requests >= 2.27
\* and a plain ValueError before: the installed version decides
FetchNotJson(p) ==
    /\ pc[p] = "fetch"
    /\ [kind |-> "notjson"] \in Served(feed)
    /\ tries' = [tries EXCEPT ![p] = @ + 1]
    /\ malformed' = [malformed EXCEPT ![p] = TRUE]
    /\ \E isRequestException \in BOOLEAN :
          IF isRequestException
          THEN IF GiveUp(tries[p] + 1)
               THEN Raise(p, "RequestException")
               ELSE UNCHANGED <<store, pc, status, running, failure>>
          ELSE Raise(p, "ValueError")
    /\ UNCHANGED <<now, feed, mode, next_run, started, indicators, idx, matched,
                   calls, result, new_count, duplicate_count, inserted, completed,
                   size_before, missing, ui>>

\* data.get fails on JSON that is no object: AttributeError, not retried
FetchNotObject(p) ==
    /\ pc[p] = "fetch"
    /\ [kind |-> "array"] \in Served(feed)
    /\ tries' = [tries EXCEPT ![p] = @ + 1]
    /\ malformed' = [malformed EXCEPT ![p] = TRUE]
    /\ Raise(p, "AttributeError")
    /\ UNCHANGED <<now, feed, mode, next_run, started, indicators, idx, matched,
                   calls, result, new_count, duplicate_count, inserted, completed,
                   size_before, missing, ui>>

\* the attempt succeeds and fetch_otx_threats returns: lines 190-209
FetchOk(p) ==
    /\ pc[p] = "fetch"
    /\ \E body \in {b \in Served(feed) : b.kind = "object"} :
          /\ indicators' = [indicators EXCEPT ![p] = Extract(body.json, now)]
          /\ malformed' = [malformed EXCEPT ![p] = ~HasResults(body.json)]
    /\ tries' = [tries EXCEPT ![p] = @ + 1]
    /\ pc' = [pc EXCEPT ![p] = "fetched"]
    /\ UNCHANGED <<store, now, feed, mode, status, next_run, running, started, idx,
                   matched, calls, result, new_count, duplicate_count, inserted,
                   failure, completed, size_before, missing, ui>>

\* lines 215-219: the result is bound, the counters are zeroed, the loop starts
LoopEnter(p) ==
    /\ pc[p] = "fetched"
    /\ tries' = [tries EXCEPT ![p] = 0]
    /\ malformed' = [malformed EXCEPT ![p] = FALSE]
    /\ pc' = [pc EXCEPT ![p] = IF indicators[p] = <<>> THEN "flush" ELSE "update_one"]
    /\ UNCHANGED <<store, now, feed, mode, status, next_run, running, started,
                   indicators, idx, matched, calls, result, new_count,
                   duplicate_count, inserted, failure, completed, size_before,
                   missing, ui>>

Item(p) == indicators[p][idx[p]]

\* update_one, first half: the server evaluates the filter
UpsertQuery(p) ==
    /\ pc[p] = "update_one"
    /\ calls' = [calls EXCEPT ![p] = @ + 1]
    /\ matched' = [matched EXCEPT ![p] = Matched(store, Filter(Item(p)))]
    /\ pc' = [pc EXCEPT ![p] = "update_one_write"]
    /\ UNCHANGED <<store, now, feed, mode, status, next_run, running, started, tries,
                   indicators, idx, result, new_count, duplicate_count, inserted,
                   failure, completed, malformed, size_before, missing, ui>>

\* update_one, second half: the server inserts when nothing matched, and
\* lines 225-233 count the result
UpsertWrite(p) ==
    /\ pc[p] = "update_one_write"
    /\ store' = Written(store, matched[p], Filter(Item(p)), Item(p))
    /\ IF Upserted(matched[p])
       THEN /\ new_count' = [new_count EXCEPT ![p] = @ + 1]
            /\ inserted' = [inserted EXCEPT ![p] =
                              @ \cup {UpsertDoc(Filter(Item(p)), Item(p))}]
            /\ UNCHANGED duplicate_count
       ELSE /\ duplicate_count' = [duplicate_count EXCEPT ![p] = @ + 1]
            /\ UNCHANGED <<new_count, inserted>>
    /\ result' = [result EXCEPT ![p] =
                    IF Upserted(matched[p]) THEN "Inserted" ELSE "AlreadyExists"]
    /\ idx' = [idx EXCEPT ![p] = @ + 1]
    /\ calls' = [calls EXCEPT ![p] = 0]
    /\ pc' = [pc EXCEPT ![p] =
                IF idx[p] + 1 > Len(indicators[p]) THEN "flush" ELSE "update_one"]
    /\ UNCHANGED <<now, feed, mode, status, next_run, running, started, tries,
                   indicators, matched, failure, completed, malformed, size_before,
                   missing, ui>>

\* update_one raises a PyMongoError before the server did anything: the
\* exception leaves the for loop and fetch_threats
UpsertError(p) ==
    /\ pc[p] = "update_one"
    /\ calls' = [calls EXCEPT ![p] = @ + 1]
    /\ Raise(p, "PyMongoError")
    /\ UNCHANGED <<now, feed, mode, next_run, started, tries, indicators, idx,
                   matched, result, new_count, duplicate_count, inserted, completed,
                   malformed, size_before, missing, ui>>

\* lines 235-238, the return to the caller, and schedule's job.run
\* rescheduling the job once it has returned
CycleReturn(p) ==
    /\ pc[p] = "flush"
    /\ completed' = [completed EXCEPT ![p] = @ + 1]
    /\ IF mode[p] = "fetch_now"
       THEN /\ Exit(p, "exit_ok")
            /\ UNCHANGED next_run
       ELSE /\ pc' = [pc EXCEPT ![p] = "scheduler"]
            /\ running' = [running EXCEPT ![p] = @ - 1]
            /\ next_run' = [next_run EXCEPT ![p] = now + Interval]
            /\ UNCHANGED status
    /\ UNCHANGED <<store, now, feed, mode, started, cycleVars, failure, missing, ui>>

\* SIGINT reaches the process: Python raises KeyboardInterrupt in the main
\* thread, in the sleep of the loop or inside the running job.  No handler is
\* installed and no except clause catches it (backoff catches the two listed
\* classes only), so the interpreter exits.  An interrupt that arrives while
\* update_one waits for the server is taken at the start of the call
Interrupt(p) ==
    /\ pc[p] \in {"scheduler", "fetch", "fetched", "update_one", "flush"}
    /\ Raise(p, "KeyboardInterrupt")
    /\ UNCHANGED <<now, feed, mode, next_run, started, cycleVars, completed,
                   missing, ui>>

\* the steps of one cycle
CycleNext(p) ==
    \/ FetchTransient(p)
    \/ FetchNotJson(p)
    \/ FetchNotObject(p)
    \/ FetchOk(p)
    \/ LoopEnter(p)
    \/ UpsertQuery(p)
    \/ UpsertWrite(p)
    \/ UpsertError(p)
    \/ CycleReturn(p)

Next ==
    \/ Tick
    \/ \E p \in Procs :
          Startup(p) \/ Main(p) \/ RunPending(p) \/ CycleNext(p) \/ Interrupt(p)

\* a process started with --fetch-now never reaches the scheduler loop
NextOnce ==
    \/ Tick
    \/ \E p \in Procs : Startup(p) \/ Main(p) \/ CycleNext(p) \/ Interrupt(p)

\* the UI next to a fetcher run with --fetch-now
NextUi == NextOnce \/ UiQuery

\* one fetcher process
Spec == Init /\ [][Next]_vars

\* one fetcher process, the same body served at every request
SpecFixed == InitFixed /\ [][Next]_vars

\* one fetcher process run with --fetch-now on one body of raw records
SpecOnce == InitOnce /\ [][NextOnce]_vars

\* two fetcher processes on the same collection
SpecTwo == InitTwo /\ [][Next]_vars

\* the UI and one fetcher process on a collection that holds documents
SpecUi == InitUi /\ [][NextUi]_vars

(***************************************************************************)
(* Properties.                                                             *)
(***************************************************************************)
\* the natural key of a stored document
Key(d) == <<d.indicator, d.type, d.timestamp>>

\* the process is inside fetch_threats, the list of indicators in hand
Extracted(p) == pc[p] \in {"fetched", "update_one", "update_one_write", "flush"}

InCycle(p) == pc[p] = "fetch" \/ Extracted(p)

\* C1: with one fetcher process, no two stored documents have the same
\* (indicator, type, timestamp), whatever cycles ran, failed or were cut short
NoDuplicateKeys ==
    \A d1, d2 \in BagToSet(store) :
        Key(d1) = Key(d2) => d1 = d2 /\ CopiesIn(d1, store) = 1

\* C1 witness: a later cycle met a key that an earlier cycle had stored
DuplicateSkipped ==
    \E p \in Procs : /\ completed[p] >= 1
                      /\ duplicate_count[p] >= 1
                      /\ BagCardinality(store) >= 2

\* the two last upserts of the loop were of the same document
UpsertedTwice(p) ==
    /\ pc[p] \in {"update_one", "flush"}
    /\ idx[p] >= 3
    /\ indicators[p][idx[p] - 1] = indicators[p][idx[p] - 2]

SecondIsDuplicate ==
    \A p \in Procs :
        UpsertedTwice(p) =>
            /\ result[p] = "AlreadyExists"
            /\ CopiesIn(indicators[p][idx[p] - 1], store) = 1

\* a step that completes an update_one reports Inserted exactly when the key
\* was absent before the call, and then adds one document; else writes nothing
FirstInsertsIffAbsent ==
    \A p \in Procs :
        (pc[p] = "update_one_write" /\ pc'[p] \in {"update_one", "flush"}) =>
            /\ (result'[p] = "Inserted") = ~BagIn(Item(p), store)
            /\ (result'[p] = "Inserted") => store' = store (+) SetToBag({Item(p)})
            /\ (result'[p] = "AlreadyExists") => store' = store

\* C2: the upsert of a document twice in succession leaves one stored
\* document with its key; the first call reports Inserted only if the key was
\* absent, the second reports AlreadyExists and writes nothing
UpsertIdempotent == []SecondIsDuplicate /\ [][FirstInsertsIffAbsent]_vars

\* C2 witness: the first of two successive upserts of one document inserted it
InsertedThenDuplicate ==
    \E p \in Procs : /\ UpsertedTwice(p)
                      /\ new_count[p] = 1
                      /\ duplicate_count[p] = 1

\* C3: the fetch is attempted at most 5 times per call; it raises the
\* transient error only after the 5th attempt, and a call that returns has
\* made between 1 and 5 attempts
RetryBound ==
    \A p \in Procs :
        /\ tries[p] <= 5
        /\ failure[p] = "RequestException" => tries[p] = 5
        /\ pc[p] = "fetched" => tries[p] \in 1..5

\* C3 witness: four attempts failed and the fifth returned
FifthAttemptReturned == \E p \in Procs : pc[p] = "fetched" /\ tries[p] = 5

\* the exceptions that end a cycle as failed
CycleFailures == {"RequestException", "ValueError", "AttributeError", "PyMongoError"}

\* C4: in forever mode a failed cycle leaves the process running in its
\* scheduling loop
SchedulerSurvivesFailure ==
    \A p \in Procs :
        (mode[p] = "forever" /\ failure[p] \in CycleFailures) =>
            status[p] = "running"

\* C5: of two fetchers that upsert the same key, at most one reports
\* Inserted, and the collection holds one document for the key
AtMostOneInserted ==
    /\ inserted[1] \cap inserted[2] = {}
    /\ \A d \in BagToSet(store) : CopiesIn(d, store) = 1

\* C6: a cycle that runs after a completed cycle on the same upstream body
\* inserts nothing and counts every extracted record as a duplicate
RepeatInsertsNothing ==
    \A p \in Procs :
        (pc[p] = "flush" /\ completed[p] >= 1) =>
            /\ new_count[p] = 0
            /\ duplicate_count[p] = Len(indicators[p])

\* C7: a process never has two invocations of the cycle in flight
SingleFlight == \A p \in Procs : running[p] <= 1

\* C7 witness: a cycle is in flight one interval or more after it started
CycleOverran ==
    \E p \in Procs : /\ InCycle(p)
                      /\ mode[p] = "forever"
                      /\ running[p] = 1
                      /\ now >= started[p] + Interval

InsertedKept ==
    \A p \in Procs :
        failure[p] \notin {"none", "startup"} =>
            \A d \in inserted[p] : BagIn(d, store)

\* C8: after a cycle failed, the documents it inserted are in the store, and
\* no step removes or changes a stored document
NoRollback == []InsertedKept /\ [][store \sqsubseteq store']_vars

\* C8 witness: the k-th upsert of a cycle failed after an earlier one had
\* inserted, the store holding older documents too
FailedAfterInsert ==
    \E p \in Procs : /\ failure[p] = "PyMongoError"
                      /\ inserted[p] # {}
                      /\ BagCardinality(store) > Cardinality(inserted[p])

\* C9: a store error ends the cycle only after update_one was tried
\* max_tries times
StoreErrorRetried ==
    \A p \in Procs : failure[p] = "PyMongoError" => calls[p] = MaxTries

\* the raw records of the body served, in order
RECURSIVE FlatRecords(_)
FlatRecords(pulses) ==
    IF pulses = <<>> THEN <<>>
    ELSE (IF "indicators" \in DOMAIN Head(pulses) THEN Head(pulses).indicators ELSE <<>>)
         \o FlatRecords(Tail(pulses))

ServedRecords ==
    IF feed.kind = "fixed" /\ feed.body.kind = "object"
       /\ "results" \in DOMAIN feed.body.json
    THEN FlatRecords(feed.body.json.results)
    ELSE <<>>

HasBoth(r) ==
    /\ "indicator" \in DOMAIN r /\ r.indicator # ""
    /\ "type" \in DOMAIN r /\ r.type # ""

\* C10: the extracted documents are, in order, the raw records that have a
\* non-empty indicator and a non-empty type, one document each
NormalizerDropRule ==
    \A p \in Procs :
        Extracted(p) =>
            LET kept == SelectSeq(ServedRecords, HasBoth) IN
            /\ Len(indicators[p]) = Len(kept)
            /\ \A i \in 1..Len(kept) :
                  /\ indicators[p][i].indicator = kept[i].indicator
                  /\ indicators[p][i].type = kept[i].type

\* C10 witness: of two raw records in a pulse without "modified", one was
\* dropped and one gave a document
OneDroppedOneKept ==
    \E p \in Procs : /\ Extracted(p)
                      /\ Len(ServedRecords) = 2
                      /\ Len(indicators[p]) = 1
                      /\ Len(feed.body.json.results) = 1
                      /\ "modified" \notin DOMAIN feed.body.json.results[1]

\* the fields every persisted document is to carry
FourFields == {"indicator", "type", "severity", "timestamp"}

\* C11: every stored document carries indicator, type, severity and
\* timestamp, the severity being "unknown" as the upstream supplied none
AllFourFields ==
    \A d \in BagToSet(store) :
        /\ FourFields \subseteq DOMAIN d
        /\ d.severity = "unknown"

\* an earlier document of the collection has the indicator and type of the
\* item in hand and another timestamp, and none has its key
SameIndicatorOtherTime(p) ==
    /\ ~BagIn(Item(p), store)
    /\ \E d \in BagToSet(store) : /\ d.indicator = Item(p).indicator
                                  /\ d.type = Item(p).type
                                  /\ d.timestamp # Item(p).timestamp

SecondTimestampInserted ==
    \A p \in Procs :
        (/\ pc[p] = "update_one_write"
         /\ pc'[p] \in {"update_one", "flush"}
         /\ SameIndicatorOtherTime(p)) =>
            /\ result'[p] = "Inserted"
            /\ CopiesIn(Item(p), store') = 1
            /\ \A d \in BagToSet(store) : CopiesIn(d, store') = CopiesIn(d, store)
            /\ BagCardinality(store') = BagCardinality(store) + 1

\* C12: the upsert of a document whose indicator and type are stored under
\* another timestamp reports Inserted, and the collection then holds both
TimestampInKey == [][SecondTimestampInserted]_vars

\* C12 witness: the cycle inserted a document next to a stored one of the
\* same indicator and type and another timestamp
TwoTimestampsStored ==
    \E p \in Procs :
        /\ pc[p] \in {"update_one", "flush"}
        /\ idx[p] >= 2
        /\ result[p] = "Inserted"
        /\ \E d \in BagToSet(store) :
              /\ d.indicator = indicators[p][idx[p] - 1].indicator
              /\ d.type = indicators[p][idx[p] - 1].type
              /\ d.timestamp # indicators[p][idx[p] - 1].timestamp
              /\ BagIn(indicators[p][idx[p] - 1], store)

\* C13: a response whose body is not JSON, or is no object with the list
\* "results", is not retried: the cycle fails at that attempt, no upsert made
MalformedNotRetried ==
    \A p \in Procs :
        malformed[p] =>
            /\ pc[p] = "exited"
            /\ status[p] = "exit_error"
            /\ failure[p] \in {"ValueError", "AttributeError"}
            /\ new_count[p] + duplicate_count[p] = 0

\* C14: a process whose set-up found the store unreachable or required
\* configuration absent has exited non-zero with no request made and nothing
\* upserted; the absence of the VirusTotal key alone does not stop the start
StartupGate ==
    \A p \in Procs :
        pc[p] \notin {"absent", "boot"} =>
            /\ missing[p] \in {"MONGODB_URI", "server", "OTX_API_KEY"} =>
                  /\ pc[p] = "exited"
                  /\ status[p] = "exit_error"
                  /\ failure[p] = "startup"
                  /\ tries[p] = 0
                  /\ new_count[p] + duplicate_count[p] = 0
                  /\ completed[p] = 0
            /\ missing[p] = "VT_API_KEY" => failure[p] # "startup"

\* a step in which the interrupt ends the process is taken with no cycle in
\* flight
InterruptWaits ==
    \A p \in Procs :
        (pc[p] # "exited" /\ failure'[p] = "KeyboardInterrupt") => ~InCycle(p)

\* C15: an interrupt received while a cycle is in flight does not cut the
\* cycle short: the process exits only once the cycle has completed or failed
CycleOutlivesInterrupt == [][InterruptWaits]_vars

\* the step completes an update_one of process p
UpsertDone(p) == pc[p] = "update_one_write" /\ pc'[p] \in {"update_one", "flush"}

\* a step keeps every stored document as it is; an upsert of a stored key
\* leaves the collection as it is and an upsert of a new key adds one
\* document of that key; a request to the UI leaves the collection as it is
FrameKept ==
    /\ \A d \in BagToSet(store) : CopiesIn(d, store') = CopiesIn(d, store)
    /\ \A p \in Procs :
          UpsertDone(p) =>
              IF \E d \in BagToSet(store) : Key(d) = Key(Item(p))
              THEN store' = store
              ELSE /\ BagCardinality(store') = BagCardinality(store) + 1
                   /\ \E d \in BagToSet(store') : Key(d) = Key(Item(p))
    /\ ui' # ui => store' = store

\* C16: no step of the fetcher or of the UI deletes a stored document or
\* changes one: an upsert of a stored key and a UI query leave the
\* collection unchanged, an upsert of a new key adds one document
StoreOnlyGrows == [][FrameKept]_vars

\* C16 witness: the UI was served and an upsert met its key, in a collection
\* of a page of documents that carry a severity
ServedAndSkipped ==
    /\ ui.served /\ ui.ok /\ Len(ui.threats) = PageSize
    /\ \E p \in Procs : result[p] = "AlreadyExists"
    /\ \E d \in BagToSet(store) : "severity" \in DOMAIN d

\* the process runs with the VirusTotal key configured
VtEnabled(p) == pc[p] \notin {"absent", "boot"} /\ missing[p] = "none"

\* C17: with the VirusTotal key configured, every IPv4 document a cycle
\* stores is the VirusTotal-derived one, of severity "high" or "unknown";
\* the cycle stores no document of the OTX fields alone for an IPv4 indicator
OnlyEnrichedStored ==
    \A p \in Procs :
        VtEnabled(p) =>
            \A d \in inserted[p] :
                d.type = "IPv4" =>
                    /\ "severity" \in DOMAIN d
                    /\ d.severity \in {"high", "unknown"}

\* the stored documents whose fields equal each filter of the request that
\* is present and not empty
Matching(st, req) ==
    {d \in BagToSet(st) :
        /\ Truthy(req.type) => ("type" \in DOMAIN d /\ d.type = req.type)
        /\ Truthy(req.severity) =>
              ("severity" \in DOMAIN d /\ d.severity = req.severity)}

\* how many stored documents match, copies counted
MatchCount(st, req) ==
    BagCardinality([d \in Matching(st, req) |-> CopiesIn(d, st)])

\* a step that serves a request renders matching documents only, at most
\* PageSize of them and all of them if there are no more, latest first, and
\* none that is later than a rendered one is left out
PageOfLatest ==
    (ui' # ui /\ ui'.ok) =>
        LET th == ui'.threats
            M == Matching(store, ui')
        IN  /\ \A i \in 1..Len(th) : \E d \in M : th[i] = Threat(d)
            /\ Len(th) <= 20
            /\ Len(th) = IF MatchCount(store, ui') < 20 THEN MatchCount(store, ui')
                         ELSE 20
            /\ \A i, j \in 1..Len(th) :
                  i < j => th[i].timestamp[1] >= th[j].timestamp[1]
            /\ \A d \in M :
                  (Len(th) > 0 /\ d.timestamp[1] > th[Len(th)].timestamp[1]) =>
                      Cardinality({i \in 1..Len(th) : th[i] = Threat(d)})
                          = CopiesIn(d, store)

\* C18: for every stored collection and every type and severity argument,
\* the UI renders only documents that equal each non-empty filter, at most
\* 20 of them, in non-increasing timestamp order, the 20 latest if more match
UiQueryContract == [][PageOfLatest]_vars

\* C18 witness: a request with a type filter was served its 20 documents
\* from a collection that holds more than 20 matching ones and one that
\* does not match
FilteredPageServed ==
    /\ ui.served /\ ui.ok
    /\ ui.type = "IPv4" /\ ui.severity = ""
    /\ Len(ui.threats) = 20
    /\ MatchCount(store, ui) > 20
    /\ Matching(store, ui) # BagToSet(store)

\* the records of the cycle upserted so far
UpsertedSoFar(p) == idx[p] - 1

\* C19: in a cycle the two counters add up to the number of extracted
\* records upserted so far, taken in the order of extraction; when the loop
\* is through, to the number of records extracted; and, the process being
\* the single writer, the collection has grown by new_count
CountersAddUp ==
    \A p \in Procs :
        InCycle(p) =>
            /\ new_count[p] + duplicate_count[p] = UpsertedSoFar(p)
            /\ UpsertedSoFar(p) <= Len(indicators[p])
            /\ inserted[p] \subseteq {indicators[p][i] : i \in 1..UpsertedSoFar(p)}
            /\ pc[p] = "flush" => new_count[p] + duplicate_count[p] = Len(indicators[p])
            /\ BagCardinality(store) = size_before[p] + new_count[p]

\* C19 witness: a cycle that began on a collection with documents is through
\* its loop with insertions and duplicates counted
CountedBoth ==
    \E p \in Procs : /\ pc[p] = "flush"
                      /\ new_count[p] >= 1
                      /\ duplicate_count[p] >= 1
                      /\ size_before[p] >= 1
====
